---- MODULE Spec2Model ----
(***************************************************************************)
(* Matrix digital rain (src/src/main.rs): the Screen of fading Symbols,    *)
(* the falling Droplets, the frame loop of main and the key listener       *)
(* thread that ends it.                                                    *)
(*                                                                         *)
(* Vec<T> is modelled as a function with domain 0..len-1, so that every    *)
(* index of the model is the index of the source.  A random draw of the    *)
(* source is an input chosen with \E from the range the source draws from. *)
(***************************************************************************)
EXTENDS Integers, Sequences, FiniteSets

\* Bounds of the model: the terminal sizes tried, the number of cells of the
\* screens built for them, and the letters drawn.
MaxTermWidth == 2
MaxTermHeight == 4
MaxCells == 4
NumLetters == 2

\* The terminal sizes tried: every width and height within the bounds whose
\* screen (one row less than the terminal) has at most MaxCells cells.
TermSizes ==
    {ts \in (1..MaxTermWidth) \X (1..MaxTermHeight) : ts[1] * (ts[2] - 1) <= MaxCells}

\* rng.gen_range('A'..='Z')
Alphabet ==
    << "A", "B", "C", "D", "E", "F", "G", "H", "I", "J", "K", "L", "M",
       "N", "O", "P", "Q", "R", "S", "T", "U", "V", "W", "X", "Y", "Z" >>

\* The letters the model draws: the first NumLetters of 'A'..='Z'.
Letters == {Alphabet[i] : i \in 1..NumLetters}

\* The amount Symbol::darken subtracts, and the brightness Symbol::set gives.
DarkenStep == 10
FullBrightness == 255

\* The number of darken calls that bring a symbol from full brightness to 0.
FadeSteps == (FullBrightness + DarkenStep - 1) \div DarkenStep

VARIABLES
    termSize,          \* what termion::terminal_size() answers: <<width, height>>
    screen,            \* main's `screen`: [width, height, columns, droplets]
    pc,                \* the main thread's position
    panic,             \* the panic that ended the main thread, "" when none
    listener,          \* the listener thread's position
    channel,           \* the number of messages in flight from tx to rx
    out,               \* what Screen::print wrote to stdout since the last flush
    frameOps,          \* history: the Screen operations of the current iteration
    rendersAfterSend,  \* history: Screen::print calls since tx.send (capped at 2)
    lastSet,           \* history: the cells the latest update_droplets call has set
    sends,             \* history: tx.send calls so far (capped at 2)
    receives,          \* history: messages try_recv has returned so far (capped at 2)
    advances,          \* history: update_droplets calls so far (capped at height)
    age                \* history: per cell, the darken calls since it was last set
                       \* (capped at FadeSteps), -1 for a cell never set

vars == << termSize, screen, pc, panic, listener, channel, out, frameOps,
           rendersAfterSend, lastSet, sends, receives, advances, age >>

----------------------------------------------------------------------------
\* Vec helpers

VecLen(v) == Cardinality(DOMAIN v)

\* rng.gen_range(lo..hi): the values it may return; it panics when lo >= hi
GenRange(lo, hi) == lo .. (hi - 1)

----------------------------------------------------------------------------
\* f32 arithmetic (IEEE 754 binary32, round to nearest, ties to even).  A
\* positive value is m * 2^e with 2^23 <= m < 2^24 and zero is m = 0; color
\* meets no negative, subnormal, infinite or NaN value.

F32Zero == [m |-> 0, e |-> 0]

F32One == [m |-> 2^23, e |-> -23]

Cmp(a, b) == IF a < b THEN -1 ELSE IF a = b THEN 0 ELSE 1

RECURSIVE F32Normalize(_, _)
F32Normalize(m, e) == IF m < 2^23 THEN F32Normalize(2 * m, e - 1) ELSE [m |-> m, e |-> e]

\* f32::from(u8): exact
F32FromU8(n) == IF n = 0 THEN F32Zero ELSE F32Normalize(n, 0)

\* The value m * 2^e plus a discarded tail that compares as `tail` (-1, 0, 1) to
\* half a unit of m, rounded to nearest, ties to even.
F32Round(m, e, tail) ==
    LET m1 == IF tail > 0 \/ (tail = 0 /\ m % 2 = 1) THEN m + 1 ELSE m
    IN  IF m1 = 2^24 THEN [m |-> 2^23, e |-> e + 1] ELSE [m |-> m1, e |-> e]

\* the product of two 24-bit mantissas as hi * 2^24 + lo, from 12-bit halves
MantissaProduct(a, b) ==
    LET ah  == a \div 2^12
        al  == a % 2^12
        bh  == b \div 2^12
        bl  == b % 2^12
        mid == ah * bl + al * bh
        low == (mid % 2^12) * 2^12 + al * bl
    IN  [hi |-> ah * bh + mid \div 2^12 + low \div 2^24, lo |-> low % 2^24]

\* x * y
F32Mul(x, y) ==
    IF x.m = 0 \/ y.m = 0 THEN F32Zero
    ELSE LET p == MantissaProduct(x.m, y.m)
         IN  IF p.hi >= 2^23
             THEN F32Round(p.hi, x.e + y.e + 24, Cmp(p.lo, 2^23))
             ELSE F32Round(2 * p.hi + p.lo \div 2^23, x.e + y.e + 23,
                           Cmp(p.lo % 2^23, 2^22))

\* n more quotient bits of r / d (r < 2 * d), q the bits so far
RECURSIVE DivBits(_, _, _, _)
DivBits(r, d, n, q) ==
    IF n = 0 THEN [q |-> q, r |-> r]
    ELSE IF r >= d THEN DivBits(2 * (r - d), d, n - 1, 2 * q + 1)
    ELSE DivBits(2 * r, d, n - 1, 2 * q)

\* x / y, y # 0
F32Div(x, y) ==
    IF x.m = 0 THEN F32Zero
    ELSE LET shift == IF x.m >= y.m THEN 0 ELSE 1
             b     == DivBits(x.m * (shift + 1), y.m, 24, 0)
         IN  F32Round(b.q, x.e - y.e - 23 - shift, Cmp(b.r, y.m))

\* The loop of powi (compiler-rt's __powisf2, and the multiplications LLVM
\* expands a constant exponent into): binary decomposition of the exponent.
RECURSIVE PowiLoop(_, _, _)
PowiLoop(a, n, r) ==
    LET r1 == IF n % 2 = 1 THEN F32Mul(r, a) ELSE r
    IN  IF n \div 2 = 0 THEN r1 ELSE PowiLoop(F32Mul(a, a), n \div 2, r1)

\* x.powi(n), n > 0
F32Powi(x, n) == PowiLoop(x, n, F32One)

\* x.round() as u8: round half away from zero, then the saturating cast
F32RoundAsU8(x) ==
    IF x.m = 0 THEN 0
    ELSE IF x.e >= 0 THEN 255
    ELSE IF -x.e > 24 THEN 0
    ELSE LET unit    == 2^(-x.e)
             whole   == x.m \div unit
             rounded == IF 2 * (x.m % unit) >= unit THEN whole + 1 ELSE whole
         IN  IF rounded > 255 THEN 255 ELSE rounded

\* color with `as u8` on the unrounded products
ColorTruncating(brightness) ==
    LET v == F32Div(F32FromU8(brightness), F32FromU8(255))
        trunc(x) == LET y == F32Mul(x, F32FromU8(255))
                    IN  IF y.m = 0 \/ -y.e >= 24 THEN 0 ELSE y.m \div 2^(-y.e)
    IN  << trunc(F32Powi(v, 7)), trunc(F32Powi(v, 1)), trunc(F32Powi(v, 4)) >>

\* color(brightness): Rgb(r, g, b) as << r, g, b >>
Color(brightness) ==
    LET v == F32Div(F32FromU8(brightness), F32FromU8(255))
        r == F32Powi(v, 7)
        g == F32Powi(v, 1)
        b == F32Powi(v, 4)
    IN  << F32RoundAsU8(F32Mul(r, F32FromU8(255))),
           F32RoundAsU8(F32Mul(g, F32FromU8(255))),
           F32RoundAsU8(F32Mul(b, F32FromU8(255))) >>

\* color for every u8, computed once
ColorTable == [brightness \in 0..255 |-> Color(brightness)]

----------------------------------------------------------------------------
\* Symbol

\* a default symbol that starts at full brightness
SymbolDefaultBright == [char |-> " ", brightness |-> FullBrightness]

SymbolDefault == [char |-> " ", brightness |-> 0]

\* u8::saturating_sub
SaturatingSub(a, b) == IF a >= b THEN a - b ELSE 0

\* Symbol::darken with a wrapping subtraction in place of the saturating one
SymbolDarkenWrapping(s) ==
    [s EXCEPT !.brightness = (@ - DarkenStep) % (FullBrightness + 1)]

\* Symbol::darken that only subtracts when the result cannot go below zero
SymbolDarkenChecked(s) ==
    [s EXCEPT !.brightness = IF @ >= DarkenStep THEN @ - DarkenStep ELSE @]

SymbolDarken(s) == [s EXCEPT !.brightness = SaturatingSub(@, DarkenStep)]

\* Symbol::set that forgets to store the character
SymbolSetKeepsChar(s, c) == [s EXCEPT !.brightness = FullBrightness]

\* Symbol::set that leaves a symbol alone that is already at full brightness
SymbolSetFirstWins(s, c) ==
    IF s.brightness = FullBrightness THEN s
    ELSE [char |-> c, brightness |-> FullBrightness]

SymbolSet(s, c) == [s EXCEPT !.char = c, !.brightness = FullBrightness]

\* what Symbol::print writes: the foreground colour of the brightness, then the char
SymbolPrint(s) == [kind |-> "symbol", fg |-> ColorTable[s.brightness], char |-> s.char]

----------------------------------------------------------------------------
\* Column

\* Column::new that allocates one symbol too many
ColumnNewOneMore(height) == [symbols |-> [r \in 0..height |-> SymbolDefault]]

ColumnNew(height) == [symbols |-> [r \in 0..(height - 1) |-> SymbolDefault]]

\* Column::darken that skips the first symbol
ColumnDarkenSkipsFirst(column) ==
    [symbols |-> [r \in DOMAIN column.symbols |->
                     IF r = 0 THEN column.symbols[r] ELSE SymbolDarken(column.symbols[r])]]

ColumnDarken(column) ==
    [symbols |-> [r \in DOMAIN column.symbols |-> SymbolDarken(column.symbols[r])]]

\* self.symbols[row] panics when row is no index of symbols
ColumnSetPanics(column, row) == row \notin DOMAIN column.symbols

ColumnSet(column, row, c) ==
    [symbols |-> [column.symbols EXCEPT ![row] = SymbolSet(@, c)]]

----------------------------------------------------------------------------
\* Droplet

\* Droplet::new_random with the row drawn from 1..=height
DropletNewRandomOneAbove(rowDraw, colDraw) == [row |-> -(rowDraw + 1), col |-> colDraw]

\* Droplet::new_random with the two draws taken for each other
DropletNewRandomSwapped(rowDraw, colDraw) == [row |-> -colDraw, col |-> rowDraw]

\* rowDraw is rng.gen_range(0..height), colDraw is rng.gen_range(0..width)
DropletNewRandom(rowDraw, colDraw) == [row |-> -rowDraw, col |-> colDraw]

\* Droplet::update that wraps only once the row is beyond height
DropletUpdateLateWrap(d, width, height, colDraw) ==
    LET row == d.row + 1
    IN  IF row > height
        THEN [row |-> 0, col |-> colDraw]
        ELSE [row |-> row, col |-> d.col]

\* Droplet::update that tests the row before it increments it
DropletUpdateTestFirst(d, width, height, colDraw) ==
    IF d.row >= height
    THEN [row |-> 0, col |-> colDraw]
    ELSE [row |-> d.row + 1, col |-> d.col]

\* Droplet::update that restarts a wrapped droplet one row above the screen
DropletUpdateRestartAbove(d, width, height, colDraw) ==
    LET row == d.row + 1
    IN  IF row >= height
        THEN [row |-> -1, col |-> colDraw]
        ELSE [row |-> row, col |-> d.col]

\* colDraw is rng.gen_range(0..width), used only when the droplet wraps
DropletUpdate(d, width, height, colDraw) ==
    LET row == d.row + 1
    IN  IF row >= height
        THEN [row |-> 0, col |-> colDraw]
        ELSE [row |-> row, col |-> d.col]

----------------------------------------------------------------------------
\* Screen

\* The draws of Screen::new: one (row, col) pair per droplet.
NewDraws(width, height) ==
    [0..(width - 1) -> [row : GenRange(0, height), col : GenRange(0, width)]]

\* Screen::new panics when it builds a droplet (width > 0) for height = 0:
\* rng.gen_range(0..0) is a draw from an empty range
ScreenNewPanics(width, height) == width > 0 /\ height <= 0

\* Screen::new that gives droplet i the column i
ScreenNewOnePerColumn(width, height, draws) ==
    [ width    |-> width,
      height   |-> height,
      columns  |-> [c \in 0..(width - 1) |-> ColumnNew(height)],
      droplets |-> [i \in 0..(width - 1) |-> DropletNewRandom(draws[i].row, i)] ]

ScreenNew(width, height, draws) ==
    [ width    |-> width,
      height   |-> height,
      columns  |-> [c \in 0..(width - 1) |-> ColumnNew(height)],
      droplets |-> [i \in 0..(width - 1) |->
                       DropletNewRandom(draws[i].row, draws[i].col)] ]

\* column.print_symbol(out, row) panics when row is no index of the column
ScreenPrintPanics(scr) ==
    \E row \in 0..(scr.height - 1) : \E c \in DOMAIN scr.columns :
        row \notin DOMAIN scr.columns[c].symbols

\* one row of Screen::print: the symbols of the columns in order, then "\r\n"
PrintRow(scr, row) ==
    [k \in 1..VecLen(scr.columns) |-> SymbolPrint(scr.columns[k - 1].symbols[row])]
        \o << [kind |-> "newline", fg |-> << >>, char |-> "\r\n"] >>

RECURSIVE PrintRows(_, _)
PrintRows(scr, row) ==
    IF row >= scr.height THEN << >>
    ELSE PrintRow(scr, row) \o PrintRows(scr, row + 1)

\* Screen::print with the two loops exchanged: column by column
ScreenPrintColumnMajor(scr) ==
    LET PrintColumn(c) ==
            [k \in 1..scr.height |-> SymbolPrint(scr.columns[c].symbols[k - 1])]
                \o << [kind |-> "newline", fg |-> << >>, char |-> "\r\n"] >>
        Columns[c \in 0..scr.width] ==
            IF c >= scr.width THEN << >> ELSE PrintColumn(c) \o Columns[c + 1]
    IN  Columns[0]

ScreenPrint(scr) == PrintRows(scr, 0)

ScreenDarken(scr) ==
    [scr EXCEPT !.columns = [c \in DOMAIN scr.columns |-> ColumnDarken(scr.columns[c])]]

\* The draws of one update_droplets call: per droplet the column it takes if it
\* wraps and the letter it writes if it is on the screen.
UpdateDraws(scr) ==
    [DOMAIN scr.droplets -> [col : GenRange(0, scr.width), char : Letters]]

\* The loop of update_droplets from droplet i on; it stops at the first panic.
\* `written` collects the cells (col, row) that Column::set has been called for.
RECURSIVE UpdateDropletsFrom(_, _, _, _)
UpdateDropletsFrom(scr, i, draws, written) ==
    IF i >= VecLen(scr.droplets)
    THEN [screen |-> scr, panic |-> FALSE, written |-> written]
    ELSE LET d    == DropletUpdate(scr.droplets[i], scr.width, scr.height, draws[i].col)
             scr1 == [scr EXCEPT !.droplets[i] = d]
         IN  IF d.row < 0
             THEN UpdateDropletsFrom(scr1, i + 1, draws, written)
             ELSE IF \/ d.col \notin DOMAIN scr1.columns
                     \/ ColumnSetPanics(scr1.columns[d.col], d.row)
                  THEN [screen |-> scr1, panic |-> TRUE, written |-> written]
                  ELSE UpdateDropletsFrom(
                           [scr1 EXCEPT !.columns[d.col] = ColumnSet(@, d.row, draws[i].char)],
                           i + 1, draws, written \cup {<< d.col, d.row >>})

ScreenUpdateDroplets(scr, draws) == UpdateDropletsFrom(scr, 0, draws, {})

----------------------------------------------------------------------------
\* main

NoScreen == [width |-> 0, height |-> 0, columns |-> << >>, droplets |-> << >>]

\* the loop body with update_droplets ahead of darken
LoopBodyUpdateFirst == << "print", "update", "darken", "flush" >>

\* The statements of the loop body that follow the cursor write, in order.
LoopBody == << "print", "darken", "update", "flush" >>

\* the position after statement `stmt` of the loop body
AfterStmt(stmt) ==
    LET k == CHOOSE j \in 1..Len(LoopBody) : LoopBody[j] = stmt
    IN  IF k = Len(LoopBody) THEN "poll" ELSE LoopBody[k + 1]

\* rx.try_recv(): a message if one is queued, otherwise Empty while the sender
\* lives and Disconnected once tx has been dropped
TryRecv(queued, txDropped) ==
    IF queued > 0 THEN "Ok"
    ELSE IF txDropped THEN "Disconnected"
    ELSE "Empty"

\* the loop condition with == turned into !=
LoopContinuesInverted(received) == received # "Empty"

\* the loop condition that only ends on a disconnected channel
LoopContinuesUntilDisconnected(received) == received # "Disconnected"

\* while rx.try_recv() == Err(TryRecvError::Empty)
LoopContinues(received) == received = "Empty"

\* the process lives until main returns or panics
ProcessAlive == pc \notin {"done", "panicked"}

Sent == listener = "done"

Init ==
    /\ termSize \in TermSizes
    /\ screen = NoScreen
    /\ pc = "new"
    /\ panic = ""
    /\ listener = "unspawned"
    /\ channel = 0
    /\ out = << >>
    /\ frameOps = << >>
    /\ rendersAfterSend = 0
    /\ lastSet = {}
    /\ sends = 0
    /\ receives = 0
    /\ advances = 0
    /\ age = << >>

\* let (width, height) = terminal_size().unwrap();
\* let mut screen = Screen::new(width as usize, height as usize - 1);
NewScreen ==
    /\ pc = "new"
    /\ LET width  == termSize[1]
           height == termSize[2] - 1
       IN  IF ScreenNewPanics(width, height)
           THEN /\ pc' = "panicked"
                /\ panic' = "empty range"
                /\ screen' = screen
                /\ age' = age
           ELSE /\ \E draws \in NewDraws(width, height) :
                       screen' = ScreenNew(width, height, draws)
                /\ pc' = "spawn"
                /\ panic' = panic
                /\ age' = [c \in 0..(width - 1) |-> [r \in 0..(height - 1) |-> -1]]
    /\ UNCHANGED << termSize, listener, channel, out, frameOps, rendersAfterSend,
                    lastSet, sends, receives, advances >>

\* channel(), thread::spawn, into_raw_mode, clear the screen and hide the cursor
Spawn ==
    /\ pc = "spawn"
    /\ listener' = "waiting"
    /\ pc' = "poll"
    /\ UNCHANGED << termSize, screen, panic, channel, out, frameOps, rendersAfterSend,
                    lastSet, sends, receives, advances, age >>

\* the loop condition, and the cursor write that opens the body
Poll ==
    /\ pc = "poll"
    /\ LET received == TryRecv(channel, listener = "done")
       IN  /\ channel' = IF received = "Ok" THEN channel - 1 ELSE channel
           /\ pc' = IF LoopContinues(received) THEN LoopBody[1] ELSE "reset"
           /\ receives' = IF received = "Ok" /\ receives < 2
                           THEN receives + 1 ELSE receives
    /\ frameOps' = << >>
    /\ UNCHANGED << termSize, screen, panic, listener, out, rendersAfterSend,
                    lastSet, sends, advances, age >>

\* screen.print(&mut stdout);
PrintFrame ==
    /\ pc = "print"
    /\ IF ScreenPrintPanics(screen)
       THEN /\ pc' = "panicked"
            /\ panic' = "index out of bounds"
            /\ UNCHANGED << out, frameOps, rendersAfterSend >>
       ELSE /\ out' = out \o ScreenPrint(screen)
            /\ frameOps' = Append(frameOps, "print")
            /\ rendersAfterSend' =
                   IF Sent /\ rendersAfterSend < 2
                   THEN rendersAfterSend + 1 ELSE rendersAfterSend
            /\ pc' = AfterStmt("print")
            /\ panic' = panic
    /\ UNCHANGED << termSize, screen, listener, channel, lastSet, sends, receives,
                    advances, age >>

\* screen.darken();
Darken ==
    /\ pc = "darken"
    /\ screen' = ScreenDarken(screen)
    /\ frameOps' = Append(frameOps, "darken")
    /\ pc' = AfterStmt("darken")
    /\ age' = [c \in DOMAIN age |-> [r \in DOMAIN age[c] |->
                  IF age[c][r] < 0 \/ age[c][r] >= FadeSteps
                  THEN age[c][r] ELSE age[c][r] + 1]]
    /\ UNCHANGED << termSize, panic, listener, channel, out, rendersAfterSend,
                    lastSet, sends, receives, advances >>

\* screen.update_droplets();
UpdateDroplets ==
    /\ pc = "update"
    /\ \E draws \in UpdateDraws(screen) :
           LET r == ScreenUpdateDroplets(screen, draws)
           IN  /\ screen' = r.screen
               /\ pc' = IF r.panic THEN "panicked" ELSE AfterStmt("update")
               /\ panic' = IF r.panic THEN "index out of bounds" ELSE panic
               /\ lastSet' = r.written
               /\ age' = [c \in DOMAIN age |-> [r0 \in DOMAIN age[c] |->
                             IF << c, r0 >> \in r.written THEN 0 ELSE age[c][r0]]]
    /\ frameOps' = Append(frameOps, "update")
    /\ advances' = IF advances < screen.height THEN advances + 1 ELSE advances
    /\ UNCHANGED << termSize, listener, channel, out, rendersAfterSend, sends,
                    receives >>

\* stdout.flush().unwrap(); std::thread::sleep(Duration::from_millis(50));
Flush ==
    /\ pc = "flush"
    /\ out' = << >>
    /\ pc' = AfterStmt("flush")
    /\ UNCHANGED << termSize, screen, panic, listener, channel, frameOps,
                    rendersAfterSend, lastSet, sends, receives, advances, age >>

\* reset the terminal back to normal, and return from main
Reset ==
    /\ pc = "reset"
    /\ pc' = "done"
    /\ UNCHANGED << termSize, screen, panic, listener, channel, out, frameOps,
                    rendersAfterSend, lastSet, sends, receives, advances, age >>

\* stdin().keys().next(); returns (a key, an error or the end of the input)
ListenerKey ==
    /\ ProcessAlive
    /\ listener = "waiting"
    /\ listener' = "sending"
    /\ UNCHANGED << termSize, screen, pc, panic, channel, out, frameOps,
                    rendersAfterSend, lastSet, sends, receives, advances, age >>

\* a listener that sends for a key and then goes back to wait for the next one
ListenerSendEveryKey ==
    /\ ProcessAlive
    /\ listener = "sending"
    /\ channel' = channel + 1
    /\ listener' = "waiting"
    /\ sends' = IF sends < 2 THEN sends + 1 ELSE sends
    /\ UNCHANGED << termSize, screen, pc, panic, out, frameOps, rendersAfterSend,
                    lastSet, receives, advances, age >>

\* tx.send(()).expect(..); the closure returns and drops tx
ListenerSend ==
    /\ ProcessAlive
    /\ listener = "sending"
    /\ channel' = channel + 1
    /\ listener' = "done"
    /\ sends' = IF sends < 2 THEN sends + 1 ELSE sends
    /\ UNCHANGED << termSize, screen, pc, panic, out, frameOps, rendersAfterSend,
                    lastSet, receives, advances, age >>

MainThread ==
    \/ NewScreen
    \/ Spawn
    \/ Poll
    \/ PrintFrame
    \/ Darken
    \/ UpdateDroplets
    \/ Flush
    \/ Reset

ListenerThread ==
    \/ ListenerKey
    \/ ListenerSend

Next ==
    \/ MainThread
    \/ ListenerThread

Spec == Init /\ [][Next]_vars

\* The main thread is never blocked: try_recv polls, the sleep is 50 ms and the
\* operating system schedules the thread, so it always takes its next step.  The
\* listener waits for the user, who may never press a key: no fairness for it.
\* Whether the loop goes on does not depend on what the screen holds, so its
\* liveness is checked for the terminals of one column.
InitFair == Init /\ termSize[1] = 1

\* color is a pure function of a u8: it is checked on a one-cell screen whose
\* symbol holds any u8 (and any character), printed once by Screen::print.
InitColor ==
    /\ termSize = << 1, 2 >>
    /\ \E b \in 0..255, ch \in {" "} \cup Letters :
           screen = [ width    |-> 1,
                      height   |-> 1,
                      columns  |-> [c \in {0} |->
                                      [symbols |-> [r \in {0} |->
                                                      [char |-> ch, brightness |-> b]]]],
                      droplets |-> [i \in {0} |-> [row |-> 0, col |-> 0]] ]
    /\ pc = "print"
    /\ panic = ""
    /\ listener = "waiting"
    /\ channel = 0
    /\ out = << >>
    /\ frameOps = << >>
    /\ rendersAfterSend = 0
    /\ lastSet = {}
    /\ sends = 0
    /\ receives = 0
    /\ advances = 0
    /\ age = [c \in {0} |-> [r \in {0} |-> -1]]

SpecColor == InitColor /\ [][PrintFrame]_vars

SpecFair == InitFair /\ [][Next]_vars /\ WF_vars(MainThread)

----------------------------------------------------------------------------
\* Vocabulary of the properties

\* the arguments main passes to Screen::new
ArgWidth == termSize[1]
ArgHeight == termSize[2] - 1

\* Screen::new(width, height) has returned, with width > 0 and height > 0
Constructed == pc # "new" /\ ArgWidth > 0 /\ ArgHeight > 0

Cols == 0..(screen.width - 1)
Rows == 0..(screen.height - 1)

SymbolAt(scr, c, r) == scr.columns[c].symbols[r]

DropletSet(scr) == {scr.droplets[i] : i \in DOMAIN scr.droplets}

\* the screen operations of one complete frame
FrameOps == << "print", "darken", "update" >>

IsPrefix(p, q) == Len(p) <= Len(q) /\ \A k \in 1..Len(p) : p[k] = q[k]

\* the symbol Screen::print wrote for column c of row r
OutAt(c, r) == out[r * (screen.width + 1) + c + 1]

\* the colour of brightness 255, of brightness 0
White == << 255, 255, 255 >>
Black == << 0, 0, 0 >>

AllLetters == {Alphabet[i] : i \in 1..Len(Alphabet)}

Max(a, b) == IF a >= b THEN a ELSE b

\* this step is the call of update_droplets, of darken
UpdateStep == pc = "update" /\ pc' # "update"
DarkenStepTaken == pc = "darken" /\ pc' # "darken"

----------------------------------------------------------------------------
\* C1: once Screen::new(width, height) has returned with width > 0 and
\* height > 0, in every state reached by render, darken and update_droplets
\* the screen has width columns of height symbols each and width droplets, and
\* width and height are still the values the screen was built with.
C1_ShapeKept ==
    Constructed =>
        /\ screen.width = ArgWidth
        /\ screen.height = ArgHeight
        /\ VecLen(screen.columns) = screen.width
        /\ DOMAIN screen.columns = Cols
        /\ \A c \in DOMAIN screen.columns :
               /\ VecLen(screen.columns[c].symbols) = screen.height
               /\ DOMAIN screen.columns[c].symbols = Rows
        /\ VecLen(screen.droplets) = screen.width

\* a 2 x 2 screen at the end of its second or a later frame, after a darken
\* that dimmed a cell and an update_droplets that set one
C1_Witness ==
    /\ Constructed
    /\ screen.width = 2 /\ screen.height = 2
    /\ frameOps = FrameOps
    /\ \E c \in Cols, r \in Rows : SymbolAt(screen, c, r).brightness = 245
    /\ \E c \in Cols, r \in Rows : SymbolAt(screen, c, r).brightness = 255

\* C2: on a screen built with width > 0 and height > 0 no write of
\* update_droplets is out of bounds: the index-out-of-bounds panic is never
\* reached, and every cell written has col < width and 0 <= row < height.
C2_SetInBounds ==
    Constructed =>
        /\ panic # "index out of bounds"
        /\ pc # "panicked"
        /\ \A cell \in lastSet : cell[1] \in Cols /\ cell[2] \in Rows

\* update_droplets has just written the bottom row and the last column
C2_Witness ==
    /\ Constructed
    /\ frameOps = FrameOps
    /\ screen.height >= 2 /\ screen.width >= 2
    /\ << screen.width - 1, screen.height - 1 >> \in lastSet
    /\ SymbolAt(screen, screen.width - 1, screen.height - 1).brightness = 255

\* C3: one call of update_droplets leaves at brightness 255 and with a
\* character of 'A'..'Z' exactly the cells (col, row) droplets stand on after
\* the call with row in [0, height), each of which it has changed, and leaves
\* every other symbol as it was; a droplet whose new row is negative writes
\* nothing.
C3_UpdateEffect ==
    [][ UpdateStep /\ Constructed =>
          LET hit == { << d.col, d.row >> :
                          d \in {e \in DropletSet(screen') : e.row \in Rows} }
          IN  /\ lastSet' = hit
              /\ \A c \in Cols, r \in Rows :
                    IF << c, r >> \in hit
                    THEN /\ SymbolAt(screen', c, r).brightness = 255
                         /\ SymbolAt(screen', c, r).char \in AllLetters
                         /\ SymbolAt(screen', c, r) # SymbolAt(screen, c, r)
                    ELSE SymbolAt(screen', c, r) = SymbolAt(screen, c, r) ]_vars

\* after an update_droplets call on a 2 x 2 screen: both droplets have set the
\* same cell, and an older cell is left dimmed
C3_Witness ==
    /\ Constructed
    /\ frameOps = FrameOps
    /\ screen.width = 2 /\ screen.height = 2
    /\ Cardinality(DropletSet(screen)) = 1
    /\ Cardinality(lastSet) = 1
    /\ \E c \in Cols, r \in Rows :
           /\ << c, r >> \notin lastSet
           /\ SymbolAt(screen, c, r).brightness = 245

\* C4: every iteration of the main loop performs print, darken and
\* update_droplets in that order, each once, and the print of an iteration
\* shows every cell the previous update_droplets set at brightness 255.
C4_FrameOrder ==
    Constructed =>
        /\ IsPrefix(frameOps, FrameOps)
        /\ pc = "flush" => frameOps = FrameOps
        /\ pc = "poll" => frameOps \in {<< >>, FrameOps}
        /\ frameOps = << "print" >> =>
               \A cell \in lastSet :
                   /\ OutAt(cell[1], cell[2]).kind = "symbol"
                   /\ OutAt(cell[1], cell[2]).fg = White

\* a print that has just shown two cells set by the previous update_droplets
C4_Witness ==
    /\ Constructed
    /\ frameOps = << "print" >>
    /\ Cardinality(lastSet) = 2
    /\ \A cell \in lastSet : OutAt(cell[1], cell[2]).fg = White

\* C5: Screen::darken replaces the brightness b of every symbol by
\* max(0, b - 10), so 0 stays 0 and the brightness stays in [0, 255], and it
\* leaves every character, every droplet and the dimensions as they were.
C5_Darken ==
    /\ [](Constructed =>
            \A c \in Cols, r \in Rows : SymbolAt(screen, c, r).brightness \in 0..255)
    /\ [][ DarkenStepTaken /\ Constructed =>
             /\ \A c \in Cols, r \in Rows :
                   /\ SymbolAt(screen', c, r).brightness =
                          Max(0, SymbolAt(screen, c, r).brightness - 10)
                   /\ SymbolAt(screen', c, r).char = SymbolAt(screen, c, r).char
             /\ screen'.droplets = screen.droplets
             /\ screen'.width = screen.width
             /\ screen'.height = screen.height ]_vars

\* after a darken: a cell that was set to a letter has faded all the way to 0,
\* one is at 245, and one that was never set is still the blank at 0
C5_Witness ==
    /\ Constructed
    /\ frameOps = << "print", "darken" >>
    /\ \E c \in Cols, r \in Rows :
           /\ SymbolAt(screen, c, r).brightness = 0
           /\ SymbolAt(screen, c, r).char \in AllLetters
    /\ \E c \in Cols, r \in Rows : SymbolAt(screen, c, r).brightness = 245

\* C6: Droplet::update increments row by one; if the incremented row is
\* >= height the droplet ends at row 0 with a column redrawn in [0, width),
\* otherwise it ends at the incremented row in its old column.
C6_DropletUpdate ==
    [][ UpdateStep /\ Constructed =>
          /\ DOMAIN screen'.droplets = DOMAIN screen.droplets
          /\ \A i \in DOMAIN screen.droplets :
                LET d == screen.droplets[i]
                    e == screen'.droplets[i]
                IN  IF d.row + 1 >= screen.height
                    THEN e.row = 0 /\ e.col \in Cols
                    ELSE e.row = d.row + 1 /\ e.col = d.col ]_vars

\* after an update_droplets call on a 2 x 2 screen: one droplet has moved down
\* to row 1, and the other has left the bottom cell of column c (still at 245)
\* for row 0 of the other column
C6_Witness ==
    /\ Constructed
    /\ frameOps = FrameOps
    /\ screen.width = 2 /\ screen.height = 2
    /\ \E i, j \in DOMAIN screen.droplets :
           /\ screen.droplets[i].row = 0
           /\ screen.droplets[j].row = 1
           /\ \E c \in Cols :
                  /\ c # screen.droplets[i].col
                  /\ SymbolAt(screen, c, 1).brightness = 245

\* C7: in every state after construction every droplet has 0 <= col < width
\* and -(height-1) <= row <= height-1; row >= height is never observable.
C7_DropletRange ==
    Constructed =>
        \A d \in DropletSet(screen) :
            /\ d.col \in Cols
            /\ d.row >= -(screen.height - 1)
            /\ d.row <= screen.height - 1

\* after an update_droplets call: a droplet on the bottom row of the last
\* column, and one that has just wrapped to row 0
C7_Witness ==
    /\ Constructed
    /\ frameOps = FrameOps
    /\ screen.width >= 2 /\ screen.height >= 2
    /\ \E d \in DropletSet(screen) :
           d.row = screen.height - 1 /\ d.col = screen.width - 1
    /\ \E d \in DropletSet(screen) : d.row = 0
    /\ \E c \in Cols : SymbolAt(screen, c, screen.height - 1).brightness = 245

\* C8: Droplet::new_random(W, H) with W > 0 and H > 0 yields row in
\* [-(H-1), 0] and col in [0, W), and every such pair (row, col) is a possible
\* outcome (for every droplet Screen::new builds).
C8_NewRandom ==
    /\ pc = "spawn" =>
           \A d \in DropletSet(screen) :
               /\ d.row \in (-(screen.height - 1))..0
               /\ d.col \in Cols
    /\ pc = "new" /\ ArgWidth > 0 /\ ArgHeight > 0 =>
           \A i \in 0..(ArgWidth - 1) :
               \A r \in (-(ArgHeight - 1))..0, c \in 0..(ArgWidth - 1) :
                   ENABLED (NewScreen /\ screen'.droplets[i] = [row |-> r, col |-> c])

\* a fresh screen with one droplet as high as it can start, in the last column,
\* and another at row 0 of column 0
C8_Witness ==
    /\ pc = "spawn"
    /\ screen.height >= 2
    /\ \E d \in DropletSet(screen) :
           d.row = -(screen.height - 1) /\ d.col = screen.width - 1
    /\ \E d \in DropletSet(screen) : d.row = 0 /\ d.col = 0

\* C9: once the notification has been sent the main loop starts no new frame:
\* at most one print follows the send, the next poll leaves the loop, and
\* (the main thread being scheduled) main then runs to its end.
C9_ExitAfterSend ==
    /\ [](rendersAfterSend <= 1)
    /\ [][ Sent /\ pc = "poll" /\ pc' # "poll" => pc' = "reset" ]_vars
    /\ (Sent ~> pc = "done")

\* the send came between the poll and the print of a frame: that frame is
\* printed after the send, and the loop has then left
C9_Witness ==
    /\ Sent
    /\ rendersAfterSend = 1
    /\ pc = "reset"

\* C10: the main loop never exits in a state where the listener thread has
\* sent no notification.
C10_NoExitBeforeSend ==
    pc \in {"reset", "done"} => Sent

\* the loop has left after the send, having run at least two frames
C10_Witness ==
    /\ pc = "reset"
    /\ Sent
    /\ channel = 0
    /\ \E c \in Cols, r \in Rows : SymbolAt(screen, c, r).brightness = 245

\* C11: the notification is one-shot: the listener sends at most one message,
\* the main loop receives at most one, at most one is ever in flight, and no
\* step of the listener thread changes the Screen or the output.
C11_OneShot ==
    /\ [](sends <= 1 /\ receives <= 1 /\ channel <= 1 /\ receives + channel = sends)
    /\ [][ listener # "unspawned" /\ listener' # listener =>
             /\ screen' = screen
             /\ out' = out ]_vars

\* the one message has been sent during a frame (the output of the print is
\* still unflushed) and not yet received
C11_Witness ==
    /\ sends = 1
    /\ channel = 1
    /\ receives = 0
    /\ out # << >>

----------------------------------------------------------------------------
\* Exact arithmetic for C15: naturals as sequences of base-10^4 limbs, least
\* significant first.

\* x * k + carry, for 0 <= k <= 511
RECURSIVE BigMulSmall(_, _, _)
BigMulSmall(x, k, carry) ==
    IF x = << >>
    THEN IF carry = 0 THEN << >> ELSE << carry >>
    ELSE LET t == Head(x) * k + carry
         IN  << t % 10^4 >> \o BigMulSmall(Tail(x), k, t \div 10^4)

\* n^k
RECURSIVE BigPow(_, _)
BigPow(n, k) == IF k = 0 THEN << 1 >> ELSE BigMulSmall(BigPow(n, k - 1), n, 0)

BigLimb(x, i) == IF i <= Len(x) THEN x[i] ELSE 0

RECURSIVE BigCmpFrom(_, _, _)
BigCmpFrom(x, y, i) ==
    IF i = 0 THEN 0
    ELSE IF BigLimb(x, i) # BigLimb(y, i) THEN Cmp(BigLimb(x, i), BigLimb(y, i))
    ELSE BigCmpFrom(x, y, i - 1)

BigCmp(x, y) == BigCmpFrom(x, y, Max(Len(x), Len(y)))

\* n = round(255 * (b/255)^k), that is (2n - 1) * 255^(k-1) <= 2 * b^k < (2n + 1) * 255^(k-1)
IsRoundedPower(n, b, k) ==
    LET twice == BigMulSmall(BigPow(b, k), 2, 0)
        unit  == BigPow(255, k - 1)
    IN  /\ n \in 0..255
        /\ n = 0 \/ BigCmp(BigMulSmall(unit, 2 * n - 1, 0), twice) <= 0
        /\ BigCmp(twice, BigMulSmall(unit, 2 * n + 1, 0)) < 0

\* the brightness and the colour of the one symbol printed under SpecColor
PrintedBrightness == SymbolAt(screen, 0, 0).brightness
PrintedColor == out[1].fg

\* C15: for every brightness b in 0..255, color(b) is
\* (round(255*(b/255)^7), round(255*(b/255)), round(255*(b/255)^4));
\* color(0) is black, color(255) is white, and for b in 1..254 the red and the
\* blue component are each strictly less than the green one.
C15_Color ==
    out # << >> =>
        LET b == PrintedBrightness
            c == PrintedColor
        IN  /\ IsRoundedPower(c[1], b, 7)
            /\ IsRoundedPower(c[2], b, 1)
            /\ IsRoundedPower(c[3], b, 4)
            /\ b = 0 => c = Black
            /\ b = 255 => c = White
            /\ b \in 1..254 => c[1] < c[2] /\ c[3] < c[2]

\* brightness 238, whose blue 255*(238/255)^4 = 193.503 is the value closest
\* to a tie, has been printed
C15_Witness ==
    /\ out # << >>
    /\ PrintedBrightness = 238
    /\ PrintedColor = << 157, 238, 194 >>

\* this step is the call of Screen::print
PrintStep == pc = "print" /\ pc' # "print"

\* C12: Screen::print on a screen of width W and height H writes exactly H
\* lines in row order; line r is the symbols of columns 0..W-1 at row r, from
\* left to right, then one line break, and nothing follows the last line
\* break; the call changes no symbol, no droplet and no dimension.
C12_Render ==
    /\ [](Constructed /\ frameOps = << "print" >> =>
            /\ Len(out) = screen.height * (screen.width + 1)
            /\ \A r \in Rows :
                  /\ \A c \in Cols :
                        /\ out[r * (screen.width + 1) + c + 1].kind = "symbol"
                        /\ out[r * (screen.width + 1) + c + 1].char =
                               SymbolAt(screen, c, r).char
                        /\ out[r * (screen.width + 1) + c + 1].fg =
                               ColorTable[SymbolAt(screen, c, r).brightness]
                  /\ out[r * (screen.width + 1) + screen.width + 1].kind = "newline"
                  /\ out[r * (screen.width + 1) + screen.width + 1].char = "\r\n")
    /\ [][ PrintStep /\ Constructed => screen' = screen ]_vars

\* a 2 x 2 screen has been printed whose cells (0, 1) and (1, 0) differ
C12_Witness ==
    /\ Constructed
    /\ frameOps = << "print" >>
    /\ screen.width = 2 /\ screen.height = 2
    /\ Len(out) = 6
    /\ SymbolAt(screen, 0, 1) # SymbolAt(screen, 1, 0)

\* C13: immediately after Screen::new every symbol has brightness 0 and
\* character ' ', wherever the droplets start; so the first frame the main loop
\* prints is entirely blank, even when a droplet starts at row 0.
C13_InitiallyBlank ==
    /\ pc = "spawn" =>
           \A c \in Cols, r \in Rows :
               /\ SymbolAt(screen, c, r).brightness = 0
               /\ SymbolAt(screen, c, r).char = " "
    /\ Constructed /\ advances = 0 /\ frameOps = << "print" >> =>
           \A k \in 1..Len(out) :
               out[k].kind = "symbol" => out[k].char = " " /\ out[k].fg = Black

\* the first frame has been printed while a droplet stands at row 0
C13_Witness ==
    /\ Constructed
    /\ advances = 0
    /\ frameOps = << "print" >>
    /\ Len(out) > 0
    /\ \E d \in DropletSet(screen) : d.row = 0

\* C14 as claimed: immediately after Screen::new every column index in
\* [0, width) is the col of exactly one droplet.
C14_OnePerColumn ==
    pc = "spawn" =>
        \A c \in Cols :
            Cardinality({i \in DOMAIN screen.droplets : screen.droplets[i].col = c}) = 1

\* C14 as amended: immediately after Screen::new there are as many droplets
\* as columns, each with a col in [0, width) drawn on its own: any column may
\* be the col of every droplet, so a column can hold several droplets or none.
C14_AsManyAsColumns ==
    /\ pc = "spawn" =>
           /\ VecLen(screen.droplets) = screen.width
           /\ \A d \in DropletSet(screen) : d.col \in Cols
    /\ pc = "new" /\ ArgWidth > 0 /\ ArgHeight > 0 =>
           \A c \in 0..(ArgWidth - 1) :
               ENABLED (NewScreen /\ \A i \in 0..(ArgWidth - 1) :
                                        screen'.droplets[i].col = c)

\* a fresh screen of two columns whose two droplets are both in column 1
C14_Witness ==
    /\ pc = "spawn"
    /\ screen.width = 2
    /\ \A d \in DropletSet(screen) : d.col = 1

\* the orders in which n droplets can be processed: order[k] is the index of
\* the droplet processed at position k
Orders(n) ==
    {order \in [0..(n - 1) -> 0..(n - 1)] :
        \A j, k \in 0..(n - 1) : order[j] = order[k] => j = k}

\* The loop of update_droplets run over the droplets in the given order, from
\* position k on; droplet i keeps its own draws[i] whatever its position.
RECURSIVE UpdateDropletsInOrder(_, _, _, _, _)
UpdateDropletsInOrder(scr, order, k, draws, written) ==
    IF k >= VecLen(scr.droplets)
    THEN [screen |-> scr, panic |-> FALSE, written |-> written]
    ELSE LET i    == order[k]
             d    == DropletUpdate(scr.droplets[i], scr.width, scr.height, draws[i].col)
             scr1 == [scr EXCEPT !.droplets[i] = d]
         IN  IF d.row < 0
             THEN UpdateDropletsInOrder(scr1, order, k + 1, draws, written)
             ELSE IF \/ d.col \notin DOMAIN scr1.columns
                     \/ ColumnSetPanics(scr1.columns[d.col], d.row)
                  THEN [screen |-> scr1, panic |-> TRUE, written |-> written]
                  ELSE UpdateDropletsInOrder(
                           [scr1 EXCEPT !.columns[d.col] = ColumnSet(@, d.row, draws[i].char)],
                           order, k + 1, draws, written \cup {<< d.col, d.row >>})

\* the droplets of scr that are on cell (c, r)
Landers(scr, c, r) ==
    {i \in DOMAIN scr.droplets : scr.droplets[i].col = c /\ scr.droplets[i].row = r}

\* the droplet of the non-empty set L that the given order processes last
LastOf(order, L) ==
    order[CHOOSE k \in DOMAIN order :
              /\ order[k] \in L
              /\ \A j \in DOMAIN order : order[j] \in L => j <= k]

\* C16 as claimed: for fixed per-droplet draws, update_droplets run over the
\* droplets in any order yields the same Screen as the code's order does, also
\* when two droplets land on the same cell.
C16_OrderIndependent ==
    pc = "update" /\ Constructed =>
        \A draws \in UpdateDraws(screen) :
            \A order \in Orders(VecLen(screen.droplets)) :
                UpdateDropletsInOrder(screen, order, 0, draws, {}).screen
                    = ScreenUpdateDroplets(screen, draws).screen

\* C16 as amended: for fixed per-droplet draws, every order of processing
\* yields the same droplet positions, the same set of cells written, the same
\* brightness everywhere and the same character on every cell no droplet or
\* one droplet lands on; a cell several droplets land on holds the letter of
\* the one processed last, so its character depends on the order when their
\* letters differ.
C16_OrderIndependentButLastWins ==
    pc = "update" /\ Constructed =>
        \A draws \in UpdateDraws(screen) :
            \A order \in Orders(VecLen(screen.droplets)) :
                LET a == UpdateDropletsInOrder(screen, order, 0, draws, {})
                    b == ScreenUpdateDroplets(screen, draws)
                IN  /\ ~a.panic /\ ~b.panic
                    /\ a.screen.droplets = b.screen.droplets
                    /\ a.written = b.written
                    /\ \A c \in Cols : \A r \in Rows :
                         LET L == Landers(b.screen, c, r)
                         IN  /\ SymbolAt(a.screen, c, r).brightness
                                    = SymbolAt(b.screen, c, r).brightness
                             /\ L = {} => /\ SymbolAt(a.screen, c, r) = SymbolAt(screen, c, r)
                                          /\ SymbolAt(b.screen, c, r) = SymbolAt(screen, c, r)
                             /\ L # {} =>
                                  /\ << c, r >> \in a.written
                                  /\ SymbolAt(a.screen, c, r).char = draws[LastOf(order, L)].char
                                  /\ SymbolAt(b.screen, c, r).char
                                         = draws[CHOOSE i \in L : \A j \in L : j <= i].char

\* before an update in which two droplets land on one cell with different
\* letters, so that the order of processing shows in the result
C16_Witness ==
    /\ pc = "update" /\ Constructed
    /\ \E draws \in UpdateDraws(screen) :
         \E order \in Orders(VecLen(screen.droplets)) :
            LET a == UpdateDropletsInOrder(screen, order, 0, draws, {})
                b == ScreenUpdateDroplets(screen, draws)
            IN  /\ a.screen # b.screen
                /\ \E c \in Cols : \E r \in Rows :
                     /\ Cardinality(Landers(b.screen, c, r)) = 2
                     /\ SymbolAt(a.screen, c, r).char # SymbolAt(b.screen, c, r).char

\* C17: every droplet enters the visible area and never leaves it.  A droplet
\* created at row -k, 0 <= k <= height-1, is at row >= 0 once height-1
\* advance steps have been taken; from then on its row is in [0, height),
\* rises by exactly one per frame and goes from height-1 to 0; a row that has
\* been non-negative is never negative again; rows change in no other step.
C17_EntersAndStays ==
    /\ [](Constructed =>
            \A d \in DropletSet(screen) :
                /\ d.row > -screen.height
                /\ d.row < screen.height
                /\ d.row < 0 => d.row >= advances - (screen.height - 1)
                /\ advances >= screen.height - 1 => d.row \in Rows)
    /\ [][ Constructed /\ UpdateStep =>
             \A i \in DOMAIN screen.droplets :
                 LET row  == screen.droplets[i].row
                     row1 == screen'.droplets[i].row
                 IN  /\ row < 0 => row1 = row + 1
                     /\ row >= 0 /\ row < screen.height - 1 => row1 = row + 1
                     /\ row = screen.height - 1 => row1 = 0 ]_vars
    /\ [][ Constructed =>
             /\ DOMAIN screen'.droplets = DOMAIN screen.droplets
             /\ \A i \in DOMAIN screen.droplets :
                  /\ screen.droplets[i].row >= 0 => screen'.droplets[i].row \in Rows
                  /\ ~UpdateStep => screen'.droplets[i] = screen.droplets[i] ]_vars

\* on the one-column screen of height 3, the droplet created at row -2 has
\* reached row 0 with the second advance step
C17_Witness ==
    /\ Constructed
    /\ screen.height = 3
    /\ advances = 2
    /\ pc = "flush"
    /\ \E d \in DropletSet(screen) : d.row = 0

\* the cells of the screen at full brightness
FullBrightCells ==
    {cell \in Cols \X Rows :
        SymbolAt(screen, cell[1], cell[2]).brightness = FullBrightness}

\* C18: at every render after the first frame a cell has brightness 255, and
\* is shown white, if and only if some droplet with row >= 0 is on it; every
\* other cell has brightness at most 245; so a rendered frame has at most
\* width cells at full brightness.
C18_BrightIffDroplet ==
    Constructed /\ frameOps = << "print" >> /\ advances >= 1 =>
        /\ \A c \in Cols, r \in Rows :
              LET onCell == \E d \in DropletSet(screen) :
                                d.row >= 0 /\ d.col = c /\ d.row = r
              IN  /\ SymbolAt(screen, c, r).brightness = 255 <=> onCell
                  /\ OutAt(c, r).fg = White <=> onCell
                  /\ ~onCell => SymbolAt(screen, c, r).brightness <= 245
        /\ Cardinality(FullBrightCells) <= screen.width

\* a later frame of the 2 x 2 screen: both droplets are visible in different
\* columns, their two cells are the full-brightness ones, a third cell is at 245
C18_Witness ==
    /\ Constructed /\ frameOps = << "print" >> /\ advances >= 2
    /\ screen.width = 2 /\ screen.height = 2
    /\ Cardinality(FullBrightCells) = 2
    /\ \A cell \in FullBrightCells :
          \E d \in DropletSet(screen) : << d.col, d.row >> = cell
    /\ \E c \in Cols, r \in Rows : SymbolAt(screen, c, r).brightness = 245

\* the values 0, 5, 15, 25, ..., 245, 255
BrightnessLevels == {0} \cup {5 + 10 * k : k \in 0..25}

\* C19: a symbol's brightness only ever takes the values 0, 5, 15, ..., 245,
\* 255.  A cell a droplet has set is at 255 - 10 * n after n <= 25 darken
\* steps without being set again (255, 245, ..., 5), at 0 after the 26th and
\* from then on; all that time it keeps the letter it was given: only an
\* update_droplets that sets the cell changes its character or raises its
\* brightness.
C19_Fade ==
    /\ [](Constructed =>
            \A c \in Cols, r \in Rows :
                LET s == SymbolAt(screen, c, r)
                    n == age[c][r]
                IN  /\ s.brightness \in BrightnessLevels
                    /\ n \in -1..26
                    /\ n = -1 => s = SymbolDefault
                    /\ n >= 0 => s.char \in AllLetters
                    /\ n \in 0..25 => s.brightness = 255 - 10 * n /\ s.brightness > 0
                    /\ n = 26 => s.brightness = 0)
    /\ [][ Constructed =>
             \A c \in Cols, r \in Rows :
                 IF UpdateStep /\ << c, r >> \in lastSet'
                 THEN /\ SymbolAt(screen', c, r).brightness = 255
                      /\ age'[c][r] = 0
                 ELSE /\ SymbolAt(screen', c, r).char = SymbolAt(screen, c, r).char
                      /\ SymbolAt(screen', c, r).brightness
                             <= SymbolAt(screen, c, r).brightness
                      /\ age[c][r] = 26 => /\ age'[c][r] = 26
                                           /\ SymbolAt(screen', c, r).brightness = 0
                      /\ age[c][r] \in 0..25 =>
                             age'[c][r] = IF DarkenStepTaken THEN age[c][r] + 1
                                          ELSE age[c][r] ]_vars

\* right after a darken: one cell was set 25 darken steps ago and is at 5,
\* another was set at least 26 darken steps ago, is at 0 and still shows its
\* letter
C19_Witness ==
    /\ Constructed
    /\ pc = "update"
    /\ \E c \in Cols, r \in Rows :
           /\ age[c][r] = 25
           /\ SymbolAt(screen, c, r).brightness = 5
    /\ \E c \in Cols, r \in Rows :
           /\ age[c][r] = 26
           /\ SymbolAt(screen, c, r).brightness = 0
           /\ SymbolAt(screen, c, r).char \in Letters

\* C20: for every terminal size (w, h) with w >= 1 and h >= 1, main constructs
\* the Screen with width > 0 and height > 0, and neither the construction nor
\* any later step of the program panics.
C20_StartupNoFault ==
    /\ termSize[1] >= 1 /\ termSize[2] >= 1
    /\ pc # "new" => ArgWidth > 0 /\ ArgHeight > 0
    /\ pc # "panicked"

====
